---- MODULE Spec2Model ----
(***************************************************************************)
(* Model of the Signal Engine of src/main.py (class Crypto_BBands_v2):     *)
(* initialize, on_trading_iteration, buy_asset and sell_asset, run against *)
(* an execution gateway that keeps cash and positions.                     *)
(*                                                                         *)
(* Quantities, cash and portfolio value are exact rationals <<n, d>> with  *)
(* d > 0 in lowest terms (the code's float arithmetic, idealised).  The    *)
(* gateway is the live one of lines 278-284: no trading fee; an order      *)
(* fills before the next gateway read, and a buy the cash does not cover   *)
(* is filled on margin (cash goes negative).  An exception raised inside   *)
(* the handler ends the run.                                               *)
(***************************************************************************)
EXTENDS Integers, Sequences, FiniteSets, TLC

\* before is what the gateway held when the last iteration was entered
VARIABLES supertrend_counter, first_iteration, iterations,
          positions, cash, events, err, last, before

\* Rebalance Engine: its counter (r_counter), the iterations it has run, the numbers of
\* those that ran a rebalance pass, its gateway (holdings and quote-asset
\* cash), the trace of its last iteration and that iteration's inputs
VARIABLES r_counter, r_iterations, r_fired, r_positions, r_cash, r_events, r_last

signal_vars == <<supertrend_counter, first_iteration, iterations,
                 positions, cash, events, err, last, before>>

rebalance_vars == <<r_counter, r_iterations, r_fired, r_positions, r_cash,
                    r_events, r_last>>

vars == <<signal_vars, rebalance_vars>>

\* ---------------------------------------------------------------- bounds
MaxIter == 7
InitialCash == 100
MaxRebalanceIter == 22

\* ------------------------------------------------------------ parameters
days_length_supertrend == 5
SettleSeconds == 5
SupertrendPct == 45
FullPct == 90

asset == "BTC"
secondary_asset == "ETH"
fixed_income_symbol == "USFR"
Assets == {asset, secondary_asset, fixed_income_symbol}

\* ------------------------------------------------- inputs of an iteration
PrimaryPrices == {2, 4}
SecondaryPrices == {1, 3}
FixedIncomePrices == {3}
\* <<lower, upper>>: <<2, 4>> puts both prices on a band, <<3, 3>> puts one
\* strictly below the lower band and the other strictly above the upper band
Bands == {<<2, 4>>, <<3, 3>>}
FastEMAs == {1, 2, 3}
SlowEMAs == {2}
\* the lookups of get_last_price that return None in an iteration
MissSets == {{}, {asset}, {secondary_asset}, {fixed_income_symbol}}

\* -------------------------------------------------------------- rationals
None == <<0, 0>>

Abs(x) == IF x < 0 THEN -x ELSE x

RECURSIVE GCD(_, _)
GCD(a, b) == IF b = 0 THEN a ELSE GCD(b, a % b)

Norm(n, d) == LET g == GCD(Abs(n), d) IN <<n \div g, d \div g>>

R(i) == <<i, 1>>
RAdd(x, y) == Norm(x[1] * y[2] + y[1] * x[2], x[2] * y[2])
RSub(x, y) == Norm(x[1] * y[2] - y[1] * x[2], x[2] * y[2])
RMulI(x, i) == Norm(x[1] * i, x[2])
RDivI(x, i) == Norm(x[1], x[2] * i)
\* mutant: true division where the code floors
RTrueDivI(x, i) == Norm(x[1], x[2] * i)

RFloorDivI(x, i) == R(x[1] \div (x[2] * i))
RPos(x) == x[1] > 0
RLeq(x, y) == x[1] * y[2] <= y[1] * x[2]
RMul(x, y) == Norm(x[1] * y[1], x[2] * y[2])

\* --------------------------------------------------------------- gateway
\* A gateway state g is [positions, cash, events, err]; events is the trace
\* of the calls one iteration makes, in order.  On a buy_asset / sell_asset
\* entry, held is what "get_position(asset) is not None" evaluated to and
\* qty is the weight passed; on a read, qty is the value returned.
Ev(op, a, side, qty, held) ==
    [op |-> op, asset |-> a, side |-> side, qty |-> qty, held |-> held]

Log(g, e) == [g EXCEPT !.events = Append(@, e)]

Held(g, a) == g.positions[a] # None

Value(g, px, a) == IF Held(g, a) THEN RMulI(g.positions[a], px[a]) ELSE R(0)

PortfolioValue(g, px) ==
    RAdd(RAdd(RAdd(g.cash, Value(g, px, asset)),
              Value(g, px, secondary_asset)),
         Value(g, px, fixed_income_symbol))

get_portfolio_value(g, px) ==
    Log(g, Ev("get_portfolio_value", "-", "-", PortfolioValue(g, px), FALSE))

get_last_price(g, px, miss, a) ==
    Log(g, Ev("get_last_price", a, "-", IF a \in miss THEN None ELSE R(px[a]), FALSE))

get_position(g, a) == Log(g, Ev("get_position", a, "-", g.positions[a], Held(g, a)))

FillSell(g, px, a, qty) ==
    LET rest == RSub(g.positions[a], qty)
    IN [g EXCEPT !.positions[a] = IF RPos(rest) THEN rest ELSE None,
                 !.cash = RAdd(@, RMulI(qty, px[a]))]

FillBuy(g, px, a, qty) ==
    [g EXCEPT !.positions[a] = IF Held(g, a) THEN RAdd(@, qty) ELSE qty,
              !.cash = RSub(@, RMulI(qty, px[a]))]

\* create_order + submit_order / submit_orders of one order
submit_order(g, px, a, qty, side) ==
    IF side = "sell"
    THEN FillSell(Log(g, Ev("submit", a, side, qty, FALSE)), px, a, qty)
    ELSE FillBuy(Log(g, Ev("submit", a, side, qty, FALSE)), px, a, qty)

RECURSIVE SellEach(_, _, _)
SellEach(g, px, as) ==
    IF as = {} THEN g
    ELSE LET a == CHOOSE x \in as : TRUE
             g1 == IF Held(g, a) THEN FillSell(g, px, a, g.positions[a]) ELSE g
         IN SellEach(g1, px, as \ {a})

\* mutant: only the primary position is liquidated
sell_primary_only(g, px) ==
    SellEach(Log(g, Ev("sell_all", "-", "sell", None, FALSE)), px, {asset})

\* Strategy.sell_all: one sell per position the strategy holds
sell_all(g, px) == SellEach(Log(g, Ev("sell_all", "-", "sell", None, FALSE)), px, Assets)

sleep(g, secs) == Log(g, Ev("sleep", "-", "-", R(secs), FALSE))

Raise(g) == [Log(g, Ev("raise", "-", "-", None, FALSE)) EXCEPT !.err = "TypeError"]

\* ------------------------------------------------------------- buy_asset
\* mutant: the "already have a position" return is missing
buy_asset_always(g, px, miss, a, pct) ==
    LET current_position == g.positions[a]
        g0 == Log(g, Ev("buy_asset", a, "-", Norm(pct, 100), current_position # None))
        fixed_income_position == g0.positions[fixed_income_symbol]
        g1 == get_position(g0, fixed_income_symbol)
        g2 == IF fixed_income_position # None
              THEN sleep(submit_order(g1, px, fixed_income_symbol,
                                      fixed_income_position, "sell"),
                         SettleSeconds)
              ELSE g1
        cash_to_buy == RDivI(RMulI(PortfolioValue(g2, px), pct), 100)
        g3 == get_last_price(get_portfolio_value(g2, px), px, miss, a)
    IN IF a \in miss THEN Raise(g3)
       ELSE LET shares_to_buy == RDivI(cash_to_buy, px[a])
            IN IF RPos(shares_to_buy)
               THEN submit_order(g3, px, a, shares_to_buy, "buy")
               ELSE g3

\* mutant: no settlement sleep after the fixed-income sell
buy_asset_nosleep(g, px, miss, a, pct) ==
    LET current_position == g.positions[a]
        g0 == Log(g, Ev("buy_asset", a, "-", Norm(pct, 100), current_position # None))
    IN IF current_position # None THEN g0
       ELSE LET fixed_income_position == g0.positions[fixed_income_symbol]
                g1 == get_position(g0, fixed_income_symbol)
                g2 == IF fixed_income_position # None
                      THEN submit_order(g1, px, fixed_income_symbol,
                                        fixed_income_position, "sell")
                      ELSE g1
                cash_to_buy == RDivI(RMulI(PortfolioValue(g2, px), pct), 100)
                g3 == get_last_price(get_portfolio_value(g2, px), px, miss, a)
            IN IF a \in miss THEN Raise(g3)
               ELSE LET shares_to_buy == RDivI(cash_to_buy, px[a])
                    IN IF RPos(shares_to_buy)
                       THEN submit_order(g3, px, a, shares_to_buy, "buy")
                       ELSE g3

\* mutant: the fixed-income position is not liquidated before the buy
buy_asset_keep_fixed_income(g, px, miss, a, pct) ==
    LET current_position == g.positions[a]
        g0 == Log(g, Ev("buy_asset", a, "-", Norm(pct, 100), current_position # None))
    IN IF current_position # None THEN g0
       ELSE LET g1 == get_position(g0, fixed_income_symbol)
                cash_to_buy == RDivI(RMulI(PortfolioValue(g1, px), pct), 100)
                g3 == get_last_price(get_portfolio_value(g1, px), px, miss, a)
            IN IF a \in miss THEN Raise(g3)
               ELSE LET shares_to_buy == RDivI(cash_to_buy, px[a])
                    IN IF RPos(shares_to_buy)
                       THEN submit_order(g3, px, a, shares_to_buy, "buy")
                       ELSE g3

buy_asset(g, px, miss, a, pct) ==
    LET current_position == g.positions[a]
        g0 == Log(g, Ev("buy_asset", a, "-", Norm(pct, 100), current_position # None))
    IN IF current_position # None THEN g0
       ELSE LET fixed_income_position == g0.positions[fixed_income_symbol]
                g1 == get_position(g0, fixed_income_symbol)
                g2 == IF fixed_income_position # None
                      THEN sleep(submit_order(g1, px, fixed_income_symbol,
                                              fixed_income_position, "sell"),
                                 SettleSeconds)
                      ELSE g1
                cash_to_buy == RDivI(RMulI(PortfolioValue(g2, px), pct), 100)
                g3 == get_last_price(get_portfolio_value(g2, px), px, miss, a)
            IN IF a \in miss THEN Raise(g3)
               ELSE LET shares_to_buy == RDivI(cash_to_buy, px[a])
                    IN IF RPos(shares_to_buy)
                       THEN submit_order(g3, px, a, shares_to_buy, "buy")
                       ELSE g3

\* ------------------------------------------------------------ sell_asset
\* mutant: the "only sell if we have a position" test is missing
sell_asset_always(g, px, miss, a) ==
    LET current_position == g.positions[a]
        g0 == Log(g, Ev("sell_asset", a, "-", None, current_position # None))
        g1 == sleep(sell_all(g0, px), SettleSeconds)
        cash_to_buy == PortfolioValue(g1, px)
        g2 == get_last_price(get_portfolio_value(g1, px), px, miss,
                             fixed_income_symbol)
    IN IF fixed_income_symbol \in miss THEN Raise(g2)
       ELSE LET fixed_income_quantity ==
                    RFloorDivI(cash_to_buy, px[fixed_income_symbol])
            IN IF RPos(fixed_income_quantity)
               THEN submit_order(g2, px, fixed_income_symbol,
                                 fixed_income_quantity, "buy")
               ELSE g2

sell_asset(g, px, miss, a) ==
    LET current_position == g.positions[a]
        g0 == Log(g, Ev("sell_asset", a, "-", None, current_position # None))
    IN IF current_position # None
       THEN LET g1 == sleep(sell_all(g0, px), SettleSeconds)
                cash_to_buy == PortfolioValue(g1, px)
                g2 == get_last_price(get_portfolio_value(g1, px), px, miss,
                                     fixed_income_symbol)
            IN IF fixed_income_symbol \in miss THEN Raise(g2)
               ELSE LET fixed_income_quantity ==
                            RFloorDivI(cash_to_buy, px[fixed_income_symbol])
                    IN IF RPos(fixed_income_quantity)
                       THEN submit_order(g2, px, fixed_income_symbol,
                                         fixed_income_quantity, "buy")
                       ELSE g2
       ELSE g0

\* -------------------------------------------------- on_trading_iteration
\* mutant: the band checks are plain ifs after the first-iteration buy
DecideNoElif(g, counter, first, in) ==
    IF counter > days_length_supertrend
    THEN LET g1 == buy_asset(g, in.px, in.miss, asset, SupertrendPct)
         IN IF g1.err # "none" THEN g1
            ELSE buy_asset(g1, in.px, in.miss, secondary_asset, SupertrendPct)
    ELSE LET g1 == IF first THEN buy_asset(g, in.px, in.miss, asset, FullPct) ELSE g
         IN IF g1.err # "none" THEN g1
            ELSE IF asset \in in.miss THEN Raise(g1)
                 ELSE IF in.px[asset] < in.lower
                      THEN buy_asset(g1, in.px, in.miss, asset, FullPct)
                      ELSE IF in.px[asset] > in.upper
                           THEN sell_asset(g1, in.px, in.miss, asset)
                           ELSE g1

\* mutant: the first-iteration test is missing
BandChecksNoFirst(g, first, in) ==
    IF asset \in in.miss THEN Raise(g)
    ELSE IF in.px[asset] < in.lower
         THEN buy_asset(g, in.px, in.miss, asset, FullPct)
         ELSE IF in.px[asset] > in.upper
              THEN sell_asset(g, in.px, in.miss, asset)
              ELSE g

\* mutant: the band comparisons include the bands themselves
BandChecksInclusive(g, first, in) ==
    IF first
    THEN buy_asset(g, in.px, in.miss, asset, FullPct)
    ELSE IF asset \in in.miss THEN Raise(g)
         ELSE IF in.px[asset] <= in.lower
              THEN buy_asset(g, in.px, in.miss, asset, FullPct)
              ELSE IF in.px[asset] >= in.upper
                   THEN sell_asset(g, in.px, in.miss, asset)
                   ELSE g

\* the first-iteration and band checks of lines 153-183
BandChecks(g, first, in) ==
    IF first
    THEN buy_asset(g, in.px, in.miss, asset, FullPct)
    ELSE IF asset \in in.miss THEN Raise(g)
         ELSE IF in.px[asset] < in.lower
              THEN buy_asset(g, in.px, in.miss, asset, FullPct)
              ELSE IF in.px[asset] > in.upper
                   THEN sell_asset(g, in.px, in.miss, asset)
                   ELSE g

\* mutant: the supertrend branch buys the primary asset only
DecidePrimaryOnly(g, counter, first, in) ==
    IF counter > days_length_supertrend
    THEN buy_asset(g, in.px, in.miss, asset, SupertrendPct)
    ELSE BandChecks(g, first, in)

\* mutant: the return that ends the supertrend branch is missing
DecideNoReturn(g, counter, first, in) ==
    LET g2 == IF counter > days_length_supertrend
              THEN LET g1 == buy_asset(g, in.px, in.miss, asset, SupertrendPct)
                   IN IF g1.err # "none" THEN g1
                      ELSE buy_asset(g1, in.px, in.miss, secondary_asset, SupertrendPct)
              ELSE g
    IN IF g2.err # "none" THEN g2 ELSE BandChecks(g2, first, in)

\* mutant: the supertrend branch fires when the counter reaches the threshold
DecideAtThreshold(g, counter, first, in) ==
    IF counter >= days_length_supertrend
    THEN LET g1 == buy_asset(g, in.px, in.miss, asset, SupertrendPct)
         IN IF g1.err # "none" THEN g1
            ELSE buy_asset(g1, in.px, in.miss, secondary_asset, SupertrendPct)
    ELSE BandChecks(g, first, in)

Decide(g, counter, first, in) ==
    IF counter > days_length_supertrend
    THEN LET g1 == buy_asset(g, in.px, in.miss, asset, SupertrendPct)
         IN IF g1.err # "none" THEN g1
            ELSE buy_asset(g1, in.px, in.miss, secondary_asset, SupertrendPct)
    ELSE BandChecks(g, first, in)

\* mutant: the trend test admits fast EMA = slow EMA
NextCounterGeq(counter, fast, slow) == IF fast >= slow THEN counter + 1 ELSE 0

NextCounter(counter, fast, slow) == IF fast > slow THEN counter + 1 ELSE 0

Quotes(p, s, f) ==
    [a \in Assets |-> IF a = asset THEN p ELSE IF a = secondary_asset THEN s ELSE f]

Inputs ==
    {[px |-> Quotes(p, s, f), lower |-> b[1], upper |-> b[2],
      fast |-> e[1], slow |-> e[2], miss |-> m] :
        p \in PrimaryPrices, s \in SecondaryPrices, f \in FixedIncomePrices,
        b \in Bands, e \in FastEMAs \X SlowEMAs, m \in MissSets}

NoInput ==
    [px |-> [a \in Assets |-> 0], lower |-> 0, upper |-> 0, fast |-> 0,
     slow |-> 0, miss |-> {}]

\* ------------------------------------------------------- Rebalance Engine
\* (spec sections 3 and 4.2; its gateway fills an order before the next read)
rebalance_period == 10
Uninitialized == -1
\* two-decimal truncation: floor(value * 100) / 100
QuantityScale == 100

\* ordered list of (asset, target weight); the quote asset is the cash
PortfolioSpec ==
    <<[asset |-> "BTC", weight |-> <<1, 2>>],
      [asset |-> "ETH", weight |-> <<1, 2>>]>>

PortfolioAssets == {PortfolioSpec[i].asset : i \in DOMAIN PortfolioSpec}

RebalancePrices == {2, 4}
RebalanceMissSets == {{}, {"BTC"}, {"ETH"}}

RebalanceInputs ==
    {[px |-> [a \in PortfolioAssets |-> IF a = "BTC" THEN p ELSE q], miss |-> m] :
        p \in RebalancePrices, q \in RebalancePrices, m \in RebalanceMissSets}

NoRebalanceInput == [px |-> [a \in PortfolioAssets |-> 0], miss |-> {}]

Truncate(x) == Norm((x[1] * QuantityScale) \div x[2], QuantityScale)

RAbs(x) == <<Abs(x[1]), x[2]>>

get_asset_potential_total(g, a) == IF Held(g, a) THEN g.positions[a] ELSE R(0)

RECURSIVE HoldingsValue(_, _, _)
HoldingsValue(g, px, i) ==
    IF i > Len(PortfolioSpec) THEN R(0)
    ELSE RAdd(RMulI(get_asset_potential_total(g, PortfolioSpec[i].asset),
                    px[PortfolioSpec[i].asset]),
              HoldingsValue(g, px, i + 1))

total_portfolio_value(g, px) == RAdd(g.cash, HoldingsValue(g, px, 1))

\* steps a to e of the pass for one entry: the order, a skip, or nothing
EntryOrder(g, in, value, e) ==
    IF e.asset \in in.miss THEN Ev("skip", e.asset, "-", None, FALSE)
    ELSE LET target == RDivI(RMul(value, e.weight), in.px[e.asset])
             delta == RSub(target, get_asset_potential_total(g, e.asset))
             quantity == Truncate(RAbs(delta))
         IN IF delta[1] = 0 \/ quantity[1] = 0
            THEN Ev("none", e.asset, "-", None, FALSE)
            ELSE Ev("submit", e.asset, IF RPos(delta) THEN "buy" ELSE "sell",
                    quantity, FALSE)

IsSkip(o) == o.op = "skip"
IsSell(o) == o.op = "submit" /\ o.side = "sell"
IsBuy(o) == o.op = "submit" /\ o.side = "buy"

RECURSIVE LogAll(_, _)
LogAll(g, os) == IF os = <<>> THEN g ELSE LogAll(Log(g, Head(os)), Tail(os))

RECURSIVE SubmitAll(_, _, _)
SubmitAll(g, px, os) ==
    IF os = <<>> THEN g
    ELSE SubmitAll(submit_order(g, px, Head(os).asset, Head(os).qty, Head(os).side),
                   px, Tail(os))

\* mutant: the batch is submitted in list order, the delay after it
execute_in_list_order(g, px, made) ==
    sleep(SubmitAll(g, px, SelectSeq(made, LAMBDA o : IsSell(o) \/ IsBuy(o))),
          SettleSeconds)

\* step 3: all sells, the settlement delay, then all buys
execute_orders(g, px, made) ==
    SubmitAll(sleep(SubmitAll(g, px, SelectSeq(made, IsSell)), SettleSeconds),
              px, SelectSeq(made, IsBuy))

Entries(g, in) ==
    LET value == total_portfolio_value(g, in.px)
    IN [i \in DOMAIN PortfolioSpec |-> EntryOrder(g, in, value, PortfolioSpec[i])]

rebalance_pass(g, in) ==
    LET made == Entries(g, in)
        g1 == LogAll(Log(g, Ev("rebalance", "-", "-",
                               total_portfolio_value(g, in.px), FALSE)),
                     SelectSeq(made, IsSkip))
    IN IF SelectSeq(made, IsSell) = <<>> /\ SelectSeq(made, IsBuy) = <<>>
       THEN Log(g1, Ev("no_orders", "-", "-", None, FALSE))
       ELSE execute_orders(g1, in.px, made)

Fires(c) == c = Uninitialized \/ c = rebalance_period

\* mutant: the increment is skipped in the iteration that rebalances
NextRebalanceCounterElse(c) == IF Fires(c) THEN 0 ELSE c + 1

NextRebalanceCounter(c) == (IF Fires(c) THEN 0 ELSE c) + 1

RebalanceInit ==
    /\ r_counter = Uninitialized
    /\ r_iterations = 0
    /\ r_fired = <<>>
    /\ r_positions = [a \in PortfolioAssets |-> None]
    /\ r_cash = R(InitialCash)
    /\ r_events = <<>>
    /\ r_last = NoRebalanceInput

rebalance_iteration ==
    /\ r_iterations < MaxRebalanceIter
    /\ \E in \in RebalanceInputs :
        LET g0 == [positions |-> r_positions, cash |-> r_cash, events |-> <<>>]
            g == IF Fires(r_counter) THEN rebalance_pass(g0, in)
                 ELSE Log(g0, Ev("wait", "-", "-", None, FALSE))
        IN /\ r_positions' = g.positions
           /\ r_cash' = g.cash
           /\ r_events' = g.events
           /\ r_last' = IF Fires(r_counter) THEN in ELSE NoRebalanceInput
    /\ r_fired' = IF Fires(r_counter) THEN Append(r_fired, r_iterations + 1) ELSE r_fired
    /\ r_counter' = NextRebalanceCounter(r_counter)
    /\ r_iterations' = r_iterations + 1
    /\ UNCHANGED signal_vars

Init ==
    /\ RebalanceInit
    /\ supertrend_counter = 0
    /\ first_iteration = TRUE
    /\ iterations = 0
    /\ positions = [a \in Assets |-> None]
    /\ cash = R(InitialCash)
    /\ events = <<>>
    /\ err = "none"
    /\ last = NoInput
    /\ before = [positions |-> [a \in Assets |-> None], cash |-> R(InitialCash)]

on_trading_iteration ==
    /\ err = "none"
    /\ iterations < MaxIter
    /\ \E in \in Inputs :
        /\ LET counter == NextCounter(supertrend_counter, in.fast, in.slow)
               g == Decide([positions |-> positions, cash |-> cash,
                            events |-> <<>>, err |-> "none"],
                           counter, first_iteration, in)
           IN /\ supertrend_counter' = counter
              /\ positions' = g.positions
              /\ cash' = g.cash
              /\ events' = g.events
              /\ err' = g.err
              /\ last' = in
    /\ before' = [positions |-> positions, cash |-> cash]
    /\ first_iteration' = FALSE
    /\ iterations' = iterations + 1
    /\ UNCHANGED rebalance_vars

Next == on_trading_iteration

Spec == Init /\ [][Next]_vars

NextRebalance == rebalance_iteration

SpecRebalance == Init /\ [][NextRebalance]_vars


\* ================================================================ claims
\* positions in the trace of the calls to buy_asset / sell_asset
Calls == {i \in DOMAIN events : events[i].op \in {"buy_asset", "sell_asset"}}

\* last trace position that belongs to the call entered at position i
SegEnd(i) ==
    LET later == {j \in Calls : j > i}
    IN IF later = {} THEN Len(events)
       ELSE (CHOOSE j \in later : \A k \in later : j <= k) - 1

\* what the call entered at position i did, in order
Seg(i) == SubSeq(events, i + 1, SegEnd(i))

Submits == {i \in DOMAIN events : events[i].op = "submit"}

PriceKnown == iterations > 0 /\ asset \notin last.miss

\* C1: each iteration sets supertrend_counter to its old value plus one when
\* fast EMA > slow EMA and to 0 otherwise, whichever branch the iteration
\* takes; so after k trend iterations in a row from 0 it is k, and the first
\* non-trend iteration makes it 0.
C1_CounterFollowsTrend ==
    [][supertrend_counter' =
          IF last'.fast > last'.slow THEN supertrend_counter + 1 ELSE 0]_vars

\* a streak long enough to take the early-returning supertrend branch
C1_Witness ==
    /\ supertrend_counter = days_length_supertrend + 1
    /\ iterations = days_length_supertrend + 1
    /\ last.fast > last.slow

\* C2: with the price strictly below the lower band buy_asset is invoked for
\* the primary asset (and submits the buy when no position is held) and
\* sell_asset is not; outside the supertrend branch an iteration makes at
\* most one call, and buy_asset(primary) and sell_asset never share one.
C2_BuyPathExclusive ==
    /\ (PriceKnown /\ last.px[asset] < last.lower) =>
          /\ \E i \in Calls : events[i].op = "buy_asset" /\ events[i].asset = asset
          /\ \A i \in Calls : events[i].op # "sell_asset"
          /\ \A i \in Calls :
                (events[i].asset = asset /\ ~events[i].held /\ err = "none") =>
                    \E j \in Submits : /\ j > i
                                       /\ events[j].asset = asset
                                       /\ events[j].side = "buy"
    /\ supertrend_counter <= days_length_supertrend => Cardinality(Calls) <= 1
    /\ \A i, j \in Calls :
          ~(events[i].op = "buy_asset" /\ events[j].op = "sell_asset")

\* the band buy (branch c) after an earlier liquidation
C2_Witness ==
    /\ PriceKnown /\ ~first_iteration /\ iterations > 1
    /\ supertrend_counter <= days_length_supertrend
    /\ last.px[asset] < last.lower
    /\ \E j \in Submits : events[j].asset = asset /\ events[j].side = "buy"

\* C3: a buy_asset call that finds a position in its asset does nothing more
\* (no order, no sleep, no read), and an iteration made only of such calls
\* leaves positions and cash as they were, however often it is repeated.
C3_HeldCallsDoNothing ==
    \A i \in Calls : (events[i].op = "buy_asset" /\ events[i].held) => SegEnd(i) = i

C3_OnlyHeldCalls ==
    /\ events # <<>>
    /\ \A i \in DOMAIN events : events[i].op = "buy_asset" /\ events[i].held

C3_BuyIdempotent ==
    [][/\ C3_HeldCallsDoNothing'
       /\ C3_OnlyHeldCalls' => (positions' = positions /\ cash' = cash)]_vars

\* two iterations in a row whose buy_asset(primary) found the position
C3_Witness ==
    /\ C3_OnlyHeldCalls
    /\ iterations > 2
    /\ last.px[asset] < last.lower
    /\ positions[asset] # None

InSupertrend == iterations > 0 /\ supertrend_counter > days_length_supertrend

\* what a buy_asset call entered at trace position i does: nothing when the
\* asset is held; otherwise it reads the fixed-income position, sells all of
\* it and sleeps when there is one, reads portfolio value and price, and
\* submits one buy of value * weight / price if that is > 0 (it raises when
\* the price read returns None)
BuyCallShape(i) ==
    LET seg == Seg(i)
        k == IF seg[1].held THEN 3 ELSE 1
        q == RDivI(RMul(seg[k + 1].qty, events[i].qty), seg[k + 2].qty[1])
    IN IF events[i].held THEN seg = <<>>
       ELSE /\ Len(seg) >= k + 2
            /\ seg[1].op = "get_position" /\ seg[1].asset = fixed_income_symbol
            /\ seg[1].held =>
                  /\ seg[2] = Ev("submit", fixed_income_symbol, "sell", seg[1].qty, FALSE)
                  /\ seg[3] = Ev("sleep", "-", "-", R(SettleSeconds), FALSE)
            /\ seg[k + 1].op = "get_portfolio_value"
            /\ seg[k + 2].op = "get_last_price" /\ seg[k + 2].asset = events[i].asset
            /\ IF seg[k + 2].qty = None
               THEN Len(seg) = k + 3 /\ seg[k + 3].op = "raise" /\ err = "TypeError"
               ELSE IF RPos(q)
                    THEN /\ Len(seg) = k + 3
                         /\ seg[k + 3] = Ev("submit", events[i].asset, "buy", q, FALSE)
                    ELSE Len(seg) = k + 2

\* C4 (as amended): in the supertrend branch the engine calls
\* buy_asset(primary, 0.45) and then, unless that call raised,
\* buy_asset(secondary, 0.45); a call whose asset is not held liquidates the
\* fixed-income holding first and submits one buy of 0.45 x portfolio value /
\* price (raising when the price lookup returns None); a call whose asset is
\* already held submits no order.
C4_SupertrendAllocates ==
    InSupertrend =>
        /\ Calls # {}
        /\ events[1] = Ev("buy_asset", asset, "-", Norm(SupertrendPct, 100), events[1].held)
        /\ \A i \in Calls : BuyCallShape(i)
        /\ \A i \in Calls \ {1} :
              events[i] = Ev("buy_asset", secondary_asset, "-",
                             Norm(SupertrendPct, 100), events[i].held)
        /\ Cardinality(Calls) = IF events[SegEnd(1)].op = "raise" THEN 1 ELSE 2

\* the primary asset was held already, so only the secondary asset is bought
C4_Witness ==
    /\ InSupertrend
    /\ Calls # {} /\ events[1].held
    /\ \E j \in Submits : events[j].asset = secondary_asset /\ events[j].side = "buy"
    /\ \A j \in Submits : events[j].asset # asset

\* C4 as stated: after a supertrend iteration (all prices available) both
\* assets are held and each was bought in it with an order of
\* 0.45 x portfolio value / price, whatever was held before.
C4_Original ==
    (InSupertrend /\ last.miss = {}) =>
        \A a \in {asset, secondary_asset} :
            /\ positions[a] # None
            /\ \E j \in Submits :
                  /\ events[j].asset = a /\ events[j].side = "buy"
                  /\ events[j - 2].op = "get_portfolio_value"
                  /\ events[j].qty =
                        RDivI(RMul(events[j - 2].qty, Norm(SupertrendPct, 100)), last.px[a])

\* C5: a supertrend iteration ends after its two buy_asset calls: nothing in
\* it calls sell_asset or sell_all or sells the primary asset, a primary
\* position held before is still the same after, and the band comparison is
\* not evaluated (no error when the primary price is missing and both assets
\* are held).
C5_SupertrendStops ==
    [][(supertrend_counter' > days_length_supertrend) =>
          /\ \A i \in DOMAIN events' :
                /\ events'[i].op \notin {"sell_asset", "sell_all"}
                /\ ~(events'[i].op = "submit" /\ events'[i].side = "sell"
                                              /\ events'[i].asset = asset)
                /\ events'[i].op = "buy_asset" =>
                      events'[i].qty = Norm(SupertrendPct, 100)
          /\ positions[asset] # None => positions'[asset] = positions[asset]
          /\ (positions[asset] # None /\ positions[secondary_asset] # None) =>
                (err' = "none" /\ Len(events') = 2)]_vars

\* supertrend iteration with the price above the upper band and the primary
\* asset held
C5_Witness ==
    /\ InSupertrend /\ PriceKnown
    /\ last.px[asset] > last.upper
    /\ Calls # {} /\ events[1].held
    /\ positions[asset] # None

\* trace positions of the call entered at position i that hold an event e
\* with the given op and side
InSeg(i, op, side) ==
    {j \in (i + 1)..SegEnd(i) : events[j].op = op /\ events[j].side = side}

\* C6: a buy_asset call that finds no position in its asset and a
\* fixed-income position submits exactly one sell, of the whole fixed-income
\* quantity, then sleeps 5, and only after that reads the portfolio value and
\* submits the buy (value x weight / price, only if > 0); without a
\* fixed-income position it submits no sell and does not sleep.
C6_SellSleepBuy ==
    \A i \in Calls : (events[i].op = "buy_asset" /\ ~events[i].held) =>
        LET sells == InSeg(i, "submit", "sell")
            buys == InSeg(i, "submit", "buy")
            sleeps == InSeg(i, "sleep", "-")
            reads == InSeg(i, "get_portfolio_value", "-")
            prices == InSeg(i, "get_last_price", "-")
        IN /\ events[i + 1].op = "get_position"
           /\ events[i + 1].asset = fixed_income_symbol
           /\ IF events[i + 1].held
              THEN /\ Cardinality(sells) = 1 /\ Cardinality(sleeps) = 1
                   /\ \A s \in sells :
                         /\ events[s].asset = fixed_income_symbol
                         /\ events[s].qty = events[i + 1].qty
                         /\ \A z \in sleeps :
                               /\ s < z
                               /\ events[z].qty = R(SettleSeconds)
                               /\ \A b \in buys \cup reads : z < b
              ELSE sells = {} /\ sleeps = {}
           /\ Cardinality(buys) <= 1
           /\ Cardinality(reads) = 1 /\ Cardinality(prices) = 1
           /\ \A v \in reads : \A p \in prices :
                 /\ v < p
                 /\ \A b \in buys :
                       /\ p < b
                       /\ events[p].qty # None
                       /\ events[b].asset = events[i].asset
                       /\ RPos(events[b].qty)
                       /\ RMulI(events[b].qty, events[p].qty[1]) =
                             RMul(events[v].qty, events[i].qty)
                 /\ (events[p].qty # None /\ RPos(events[v].qty)) => buys # {}

\* fixed income is sold, then the sleep, then the buy
C6_Witness ==
    \E i \in Calls :
        /\ events[i].op = "buy_asset" /\ ~events[i].held
        /\ events[i + 1].held
        /\ InSeg(i, "submit", "buy") # {}
        /\ err = "none"

\* C7: a sell_asset call that finds a position liquidates (sell_all), then
\* sleeps 5, then reads the portfolio value, which is the cash the
\* liquidation left, and the fixed-income price, and submits one
\* fixed-income buy of floor(cash / price) if and only if that is > 0; the
\* asset is no longer held.
C7_LiquidateSleepBuyFixedIncome ==
    \A i \in Calls : (events[i].op = "sell_asset" /\ events[i].held) =>
        LET buys == InSeg(i, "submit", "buy")
            v == events[i + 3].qty
            p == events[i + 4].qty
        IN /\ i = 1 /\ Len(events) \in {5, 6}
           /\ events[2].op = "sell_all"
           /\ events[3] = Ev("sleep", "-", "-", R(SettleSeconds), FALSE)
           /\ events[4].op = "get_portfolio_value"
           /\ events[5].op = "get_last_price"
           /\ events[5].asset = fixed_income_symbol
           /\ InSeg(i, "submit", "sell") = {}
           /\ \A b \in buys :
                 /\ b = 6
                 /\ events[b].asset = fixed_income_symbol
                 /\ events[b].qty[2] = 1 /\ events[b].qty[1] > 0
                 /\ p # None
                 /\ RLeq(R(events[b].qty[1] * p[1]), v)
                 /\ ~RLeq(R((events[b].qty[1] + 1) * p[1]), v)
                 /\ RAdd(cash, R(events[b].qty[1] * p[1])) = v
           /\ buys = {} => cash = v
           /\ (p # None /\ RLeq(p, v)) => buys # {}
           /\ (p # None /\ buys = {}) => Len(events) = 5
           /\ positions[events[i].asset] = None

\* a liquidation whose cash is not a multiple of the fixed-income price
C7_Witness ==
    /\ Calls = {1} /\ events[1].op = "sell_asset" /\ events[1].held
    /\ Len(events) = 6 /\ events[6].op = "submit"
    /\ RPos(cash)

\* C8: a sell_asset call that finds no position does nothing (no
\* liquidation, sleep, read or order; positions and cash unchanged); so
\* right after an iteration that liquidated, a further sell_asset iteration
\* finds no position and submits nothing.
C8_NoPosition == Calls = {1} /\ events[1].op = "sell_asset" /\ ~events[1].held

C8_Liquidated ==
    Calls = {1} /\ events[1].op = "sell_asset" /\ events[1].held /\ err = "none"

C8_SellNoop ==
    [][/\ C8_NoPosition' =>
            (Len(events') = 1 /\ positions' = positions /\ cash' = cash)
       /\ (C8_Liquidated /\ Calls' # {} /\ events'[1].op = "sell_asset") =>
            C8_NoPosition']_vars

\* the price is above the upper band again after the liquidation
C8_Witness ==
    /\ C8_NoPosition
    /\ positions[fixed_income_symbol] # None
    /\ last.px[asset] > last.upper

\* C9: an iteration in which get_last_price(primary) returns None raises
\* nothing and submits no order.
C9_MissingPriceSkips ==
    (iterations > 0 /\ asset \in last.miss) => (err = "none" /\ Submits = {})

\* C10: the first iteration calls buy_asset(primary, 0.9) and nothing else,
\* wherever the price lies relative to the bands; no position is held, so
\* with a price it submits exactly one order, a buy of the primary asset of
\* 0.9 x portfolio value / price.
C10_FirstIterationBuys ==
    (iterations = 1 /\ supertrend_counter <= days_length_supertrend) =>
        /\ Calls = {1}
        /\ events[1] = Ev("buy_asset", asset, "-", Norm(FullPct, 100), FALSE)
        /\ PriceKnown =>
              /\ Cardinality(Submits) = 1
              /\ \A j \in Submits :
                    /\ events[j].asset = asset /\ events[j].side = "buy"
                    /\ events[j].qty =
                          RDivI(RMul(R(InitialCash), Norm(FullPct, 100)), last.px[asset])
                    /\ \E v \in DOMAIN events :
                          /\ events[v].op = "get_portfolio_value"
                          /\ events[v].qty = R(InitialCash)

\* first iteration with the price above the upper band
C10_Witness ==
    /\ iterations = 1 /\ PriceKnown
    /\ last.px[asset] > last.upper
    /\ positions[asset] # None

\* C13: an iteration that is not the first, with the counter not above the
\* threshold and lower band <= price <= upper band (bands included), makes
\* no call at all: no order, no sleep, no error, positions and cash as they
\* were on entry.
C13_InsideBandsNoAction ==
    (/\ iterations > 1 /\ PriceKnown
     /\ supertrend_counter <= days_length_supertrend
     /\ last.lower <= last.px[asset] /\ last.px[asset] <= last.upper) =>
        /\ events = <<>>
        /\ err = "none"
        /\ positions = before.positions
        /\ cash = before.cash

\* the price is exactly the upper band while the primary asset is held
C13_Witness ==
    /\ iterations > 1 /\ PriceKnown
    /\ supertrend_counter <= days_length_supertrend
    /\ last.px[asset] = last.upper
    /\ before.positions[asset] # None
    /\ events = <<>>

\* a sell_asset call that found a position, and nothing raised after it
SoldOut == Calls = {1} /\ events[1].op = "sell_asset" /\ events[1].held

\* C14 (as amended): the sell decision liquidates every position held, not
\* only the primary one: after sell_asset(primary) found a position, neither
\* the primary nor the secondary asset is held, and the fixed-income
\* quantity bought is sized on the proceeds of all of them.
C14_SellLiquidatesAll ==
    SoldOut =>
        /\ positions[asset] = None
        /\ positions[secondary_asset] = None
        /\ events[2].op = "sell_all"
        /\ events[4].qty =
              RAdd(RAdd(RAdd(before.cash,
                             RMulI(before.positions[asset], last.px[asset])),
                        IF before.positions[secondary_asset] = None THEN R(0)
                        ELSE RMulI(before.positions[secondary_asset],
                                   last.px[secondary_asset])),
                   IF before.positions[fixed_income_symbol] = None THEN R(0)
                   ELSE RMulI(before.positions[fixed_income_symbol],
                              last.px[fixed_income_symbol]))

\* the sell decision taken while a secondary position was held
C14_Witness ==
    /\ SoldOut
    /\ before.positions[secondary_asset] # None
    /\ positions[secondary_asset] = None

\* C14 as stated: sell_asset(primary) leaves a held secondary position as it
\* was.
C14_Original ==
    (SoldOut /\ before.positions[secondary_asset] # None) =>
        positions[secondary_asset] = before.positions[secondary_asset]

Notional(j) == RMulI(events[j].qty, last.px[events[j].asset])

\* cash at the gateway just before the event at trace position j: the cash
\* after the iteration with the fills of the orders from j on undone (no
\* sell_all follows an order in any trace)
RECURSIVE CashBefore(_)
CashBefore(j) ==
    LET after == IF j = Len(events) THEN cash ELSE CashBefore(j + 1)
    IN IF events[j].op # "submit" THEN after
       ELSE IF events[j].side = "buy" THEN RAdd(after, Notional(j))
            ELSE RSub(after, Notional(j))

\* C15: every buy order submitted has a notional value (quantity x price) no
\* greater than the cash at the gateway when it is submitted, the preceding
\* liquidation having filled.
C15_BuysCovered ==
    \A j \in Submits :
        events[j].side = "buy" => RLeq(Notional(j), CashBefore(j))

RiskHeld == positions[asset] # None \/ positions[secondary_asset] # None

\* C16: after every iteration the fixed-income position and a risk-asset
\* position (primary or secondary) are not both held: a buy of a risk asset
\* comes after the sale of the whole fixed-income position, and the
\* fixed-income buy comes after sell_all.
C16_FixedIncomeOrRisk ==
    /\ ~(positions[fixed_income_symbol] # None /\ RiskHeld)
    /\ \A j \in Submits :
          (events[j].side = "buy" /\ events[j].asset # fixed_income_symbol) =>
              /\ before.positions[fixed_income_symbol] # None =>
                    \E k \in Submits :
                        /\ k < j
                        /\ events[k] = Ev("submit", fixed_income_symbol, "sell",
                                           before.positions[fixed_income_symbol], FALSE)
              /\ positions[fixed_income_symbol] = None
    /\ \A j \in Submits :
          (events[j].side = "buy" /\ events[j].asset = fixed_income_symbol) =>
              /\ ~RiskHeld
              /\ \E k \in DOMAIN events : k < j /\ events[k].op = "sell_all"

\* the secondary asset is bought out of a fixed-income holding
C16_Witness ==
    /\ before.positions[fixed_income_symbol] # None
    /\ positions[fixed_income_symbol] = None
    /\ positions[asset] # None /\ positions[secondary_asset] # None

\* C17: 0 <= supertrend_counter <= iterations run so far, so no iteration up
\* to number days_length_supertrend takes the supertrend branch (a call with
\* weight 0.45), and the first iteration always makes the 0.9 buy call.
C17_CounterBoundedByIterations ==
    /\ 0 <= supertrend_counter /\ supertrend_counter <= iterations
    /\ \A i \in Calls :
          events[i].qty = Norm(SupertrendPct, 100) =>
              /\ iterations >= days_length_supertrend + 1
              /\ supertrend_counter > days_length_supertrend
    /\ iterations = 1 =>
          (Calls = {1} /\ events[1].op = "buy_asset"
                       /\ events[1].qty = Norm(FullPct, 100))

\* the earliest iteration that can take the supertrend branch takes it
C17_Witness ==
    /\ iterations = days_length_supertrend + 1
    /\ \E i \in Calls : events[i].qty = Norm(SupertrendPct, 100)

PrimaryBuys ==
    {j \in Submits : events[j].asset = asset /\ events[j].side = "buy"}

\* C18: a buy order for the primary asset is submitted only when no primary
\* position is held, and a held primary position changes only by being
\* liquidated in a sell_asset call; so between two primary buys there is
\* always a liquidation and a held position is never added to.
C18_BuysAndLiquidationsAlternate ==
    /\ Cardinality(PrimaryBuys) <= 1
    /\ \A j \in PrimaryBuys :
          /\ before.positions[asset] = None
          /\ positions[asset] = events[j].qty
    /\ before.positions[asset] # None =>
          \/ positions[asset] = before.positions[asset]
          \/ positions[asset] = None /\ SoldOut
    /\ (PrimaryBuys = {} /\ before.positions[asset] = None) =>
          positions[asset] = None

\* the primary asset is bought again after it was liquidated
C18_Witness ==
    /\ PrimaryBuys # {}
    /\ iterations > 2
    /\ before.positions[fixed_income_symbol] # None

\* ------------------------------------------------ Rebalance Engine claims
RebalanceOps(op, side) ==
    {j \in DOMAIN r_events : r_events[j].op = op /\ r_events[j].side = side}

PassRan == r_events # <<>> /\ r_events[1].op = "rebalance"

\* C11: the counter is uninitialized before the first iteration and
\* afterwards runs 1..period (never above the period); a rebalance pass runs
\* in iteration 1 and then exactly in every iteration period later
\* (1, 1 + period, 1 + 2 x period, ...), and in no other iteration.
C11_RebalanceEveryPeriod ==
    /\ r_iterations = 0 => (r_counter = Uninitialized /\ r_fired = <<>>)
    /\ r_iterations > 0 =>
          /\ r_counter = ((r_iterations - 1) % rebalance_period) + 1
          /\ r_counter <= rebalance_period
          /\ Len(r_fired) = ((r_iterations - 1) \div rebalance_period) + 1
          /\ PassRan <=> (r_iterations - 1) % rebalance_period = 0
    /\ \A k \in DOMAIN r_fired : r_fired[k] = (k - 1) * rebalance_period + 1

\* the third pass, two full periods after the first
C11_Witness ==
    /\ r_iterations = 2 * rebalance_period + 1
    /\ Len(r_fired) = 3
    /\ PassRan

\* C12: in a pass that submits sell and buy orders, every sell comes before
\* the settlement sleep and every buy after it; an entry whose price is
\* missing is skipped (no order for it) and every other entry is still
\* brought to within one quantity step of its target.
C12_SellsBeforeBuys ==
    LET sells == RebalanceOps("submit", "sell")
        buys == RebalanceOps("submit", "buy")
        sleeps == RebalanceOps("sleep", "-")
    IN /\ (sells # {} /\ buys # {}) =>
             /\ Cardinality(sleeps) = 1
             /\ \A z \in sleeps :
                   /\ r_events[z].qty = R(SettleSeconds)
                   /\ \A x \in sells : x < z
                   /\ \A b \in buys : z < b
       /\ PassRan =>
             \A i \in DOMAIN PortfolioSpec :
                 LET e == PortfolioSpec[i]
                     target == RDivI(RMul(r_events[1].qty, e.weight), r_last.px[e.asset])
                     held == IF r_positions[e.asset] = None THEN R(0)
                             ELSE r_positions[e.asset]
                     gap == RAbs(RSub(target, held))
                 IN IF e.asset \in r_last.miss
                    THEN /\ \A j \in sells \cup buys : r_events[j].asset # e.asset
                         /\ \E j \in DOMAIN r_events :
                               r_events[j].op = "skip" /\ r_events[j].asset = e.asset
                    ELSE /\ ~RLeq(<<1, QuantityScale>>, gap)
                         /\ Cardinality({j \in sells \cup buys :
                                            r_events[j].asset = e.asset}) <= 1

\* a pass that sells one asset and buys the other
C12_Witness ==
    /\ RebalanceOps("submit", "sell") # {}
    /\ RebalanceOps("submit", "buy") # {}
    /\ r_last.miss = {}
====
